---- MODULE Spec2Model ----
(***************************************************************************)
(* Route energy model and charging-stop planner of PLUSFIND.               *)
(*                                                                         *)
(* Sources: src/src/services/dynamicRouteCalculationService.ts,            *)
(*          src/src/services/realChargingStationService.ts and             *)
(*          src/src/components/RoutePlanner.tsx                            *)
(*                                                                         *)
(* Specifications.                                                         *)
(*   Spec        findOptimalChargingStops and the assembly of the plan,    *)
(*               over segment lists of any energy;                         *)
(*   EnergySpec  calculateEnergyConsumption as a function of its           *)
(*               arguments;                                                *)
(*   RouteSpec   a planning request from RoutePlanner.handlePlanRoute      *)
(*               through calculateOptimalRoute to onPlanRoute, and the     *)
(*               same request once more with the same provider answers;    *)
(*   PairSpec    two calls of findOptimalChargingStops whose awaits        *)
(*               interleave;                                               *)
(*   ImpactSpec  calculateWeatherImpact as a function of the weather;      *)
(*   GainSpec    calculateElevationGain as a function of the profile.      *)
(*                                                                         *)
(* Numbers.  The code computes in IEEE doubles; the model computes the     *)
(* same expressions exactly, in integers:                                  *)
(*   - energies (energyRequired, energyAdded, batteryCapacity) are in      *)
(*     tenths of a kWh, the precision the code rounds them to              *)
(*     (Math.round(x * 10) / 10);                                          *)
(*   - a state of charge is kept as the integer  SOC% * batteryCapacity,   *)
(*     so that  currentSOC - energy / batteryCapacity * 100  is exact;     *)
(*     Pct(p) is p percent in that unit;                                   *)
(*   - powers are in kW, times in minutes, station scores in tenths.       *)
(*   - calculateEnergyConsumption is in Wh, from distances in metres;      *)
(*     the air term is floored to the mWh before the sum;                  *)
(*   - elevations are in tenths of a metre, elevation gains in metres.     *)
(***************************************************************************)
EXTENDS Integers, Sequences, FiniteSets, TLC

(***************************************************************************)
(* Bounds of the model                                                     *)
(***************************************************************************)
\* longest segment list handed to findOptimalChargingStops
MaxSegments == 2
\* longest station list a live directory answer carries
MaxStations == 2

(***************************************************************************)
(* Program constants                                                       *)
(***************************************************************************)
\* `if (currentSOC - socNeeded < 20)`  -- the 20% buffer
BufferSOC == 20
\* `const targetSOC = 80`
targetSOC == 80
\* `radiusKm: 50`
LookupRadiusKm == 50

NoStation == [id |-> "null"]

(***************************************************************************)
(* Arithmetic helpers                                                      *)
(***************************************************************************)
Max(a, b) == IF a >= b THEN a ELSE b
Min(a, b) == IF a <= b THEN a ELSE b

\* Math.round(n / d) for d > 0: the nearest integer, halves rounded up
\* (towards +infinity), also for negative values.
MathRound(n, d) == (2 * n + d) \div (2 * d)

RECURSIVE SumSeq(_)
SumSeq(s) == IF s = <<>> THEN 0 ELSE Head(s) + SumSeq(Tail(s))

SeqsUpTo(S, n) == UNION { [1..k -> S] : k \in 0..n }

(***************************************************************************)
(* Charging stations                                                       *)
(***************************************************************************)
Points == {"Dubai", "AbuDhabi", "Riyadh"}

\* The built-in list of getFallbackStations, in its order.  amenities is the
\* length of the amenities array, the only thing the planner reads of it.
fallbackStations ==
  << [id |-> "dewa-mall-emirates", network |-> "DEWA", connectorTypes |-> {"CCS2", "CHAdeMO"},
      maxPower |-> 150, isAvailable |-> TRUE, numberOfPorts |-> 4, amenities |-> 4],
     [id |-> "dewa-dubai-mall", network |-> "DEWA", connectorTypes |-> {"CCS2", "Type2"},
      maxPower |-> 120, isAvailable |-> TRUE, numberOfPorts |-> 8, amenities |-> 3],
     [id |-> "tesla-jbr", network |-> "Tesla", connectorTypes |-> {"Tesla", "CCS2"},
      maxPower |-> 250, isAvailable |-> TRUE, numberOfPorts |-> 12, amenities |-> 3],
     [id |-> "addc-yas-mall", network |-> "ADDC", connectorTypes |-> {"CCS2", "CHAdeMO", "Type2"},
      maxPower |-> 180, isAvailable |-> TRUE, numberOfPorts |-> 6, amenities |-> 3],
     [id |-> "addc-corniche", network |-> "ADDC", connectorTypes |-> {"CCS2", "Type2"},
      maxPower |-> 100, isAvailable |-> TRUE, numberOfPorts |-> 4, amenities |-> 3],
     [id |-> "sewa-city-centre", network |-> "SEWA", connectorTypes |-> {"CCS2", "Type2"},
      maxPower |-> 120, isAvailable |-> TRUE, numberOfPorts |-> 4, amenities |-> 3],
     [id |-> "sec-khobar", network |-> "Other", connectorTypes |-> {"CCS2", "CHAdeMO"},
      maxPower |-> 150, isAvailable |-> TRUE, numberOfPorts |-> 6, amenities |-> 3],
     [id |-> "kahramaa-doha", network |-> "Other", connectorTypes |-> {"CCS2", "Type2"},
      maxPower |-> 120, isAvailable |-> TRUE, numberOfPorts |-> 4, amenities |-> 3],
     [id |-> "oman-muscat-mall", network |-> "Other", connectorTypes |-> {"CCS2", "Type2"},
      maxPower |-> 100, isAvailable |-> TRUE, numberOfPorts |-> 4, amenities |-> 3] >>

\* calculateDistance (haversine, R = 6371 km) from each point of the model to
\* each fallback station, in metres, evaluated from the coordinates in the
\* source: Dubai (25.2048, 55.2708), AbuDhabi (24.4539, 54.3773),
\* Riyadh (24.7136, 46.6753).
DistanceTable ==
  "Dubai" :> ("dewa-mall-emirates" :> 12063 @@
      "dewa-dubai-mall" :> 919 @@
      "tesla-jbr" :> 20326 @@
      "addc-yas-mall" :> 103886 @@
      "addc-corniche" :> 121709 @@
      "sewa-city-centre" :> 21092 @@
      "sec-khobar" :> 520588 @@
      "kahramaa-doha" :> 386263 @@
      "oman-muscat-mall" :> 365734) @@
  "AbuDhabi" :> ("dewa-mall-emirates" :> 111082 @@
      "dewa-dubai-mall" :> 122587 @@
      "tesla-jbr" :> 102740 @@
      "addc-yas-mall" :> 23808 @@
      "addc-corniche" :> 2595 @@
      "sewa-city-centre" :> 143973 @@
      "sec-khobar" :> 463571 @@
      "kahramaa-doha" :> 313418 @@
      "oman-muscat-mall" :> 422067) @@
  "Riyadh" :> ("dewa-mall-emirates" :> 860720 @@
      "dewa-dubai-mall" :> 868421 @@
      "tesla-jbr" :> 854547 @@
      "addc-yas-mall" :> 802427 @@
      "addc-corniche" :> 778379 @@
      "sewa-city-centre" :> 883736 @@
      "sec-khobar" :> 391074 @@
      "kahramaa-doha" :> 484538 @@
      "oman-muscat-mall" :> 1198405)

calculateDistance(point, stationId) == DistanceTable[point][stationId]

\* the built-in list without the radius filter
getFallbackStations_Unfiltered(request) == fallbackStations

\* getFallbackStations(request): the built-in list filtered by radius only
\* (Array.prototype.filter keeps the order, as SelectSeq does)
getFallbackStations(request) ==
  LET InRadius(station) ==
        calculateDistance(request.at, station.id) <= request.radiusKm * 1000
  IN  SelectSeq(fallbackStations, InRadius)

\* Stations a live answer (transformStations output) is made of: maxPower > 0,
\* numberOfPorts >= 1, at least two amenities, network one of the mapped names.
LiveStations ==
  { [id |-> "ocm-1", network |-> "Other", connectorTypes |-> {"CCS2"},
     maxPower |-> 150, isAvailable |-> TRUE, numberOfPorts |-> 2, amenities |-> 2],
    [id |-> "ocm-2", network |-> "Tesla", connectorTypes |-> {"Tesla"},
     maxPower |-> 250, isAvailable |-> TRUE, numberOfPorts |-> 1, amenities |-> 2],
    [id |-> "ocm-3", network |-> "ADDC", connectorTypes |-> {"CCS2", "Type2"},
     maxPower |-> 50, isAvailable |-> TRUE, numberOfPorts |-> 2, amenities |-> 2],
    [id |-> "ocm-4", network |-> "DEWA", connectorTypes |-> {"CCS2"},
     maxPower |-> 350, isAvailable |-> FALSE, numberOfPorts |-> 4, amenities |-> 3] }

(***************************************************************************)
(* findBestChargingStation and scoreChargingStation                        *)
(***************************************************************************)
\* score * 10:  maxPower / 10 + network bonus + numberOfPorts + amenities.length
scoreChargingStation(station) ==
  station.maxPower
  + 10 * (IF station.network = "Tesla" THEN 20
          ELSE IF station.network = "DEWA" THEN 15
          ELSE IF station.network = "ADDC" THEN 10
          ELSE 0)
  + 10 * station.numberOfPorts
  + 10 * station.amenities

\* the filter predicate without the availability flag
IsCompatible_IgnoreAvailability(station, v) ==
  (station.connectorTypes \cap v.chargingPorts) # {}

\* the filter predicate of findBestChargingStation
IsCompatible(station, v) ==
  station.isAvailable /\ (station.connectorTypes \cap v.chargingPorts) # {}

\* the reducer with >= : the last maximal score wins
PickBetter_LastWins(best, current) ==
  IF scoreChargingStation(current) >= scoreChargingStation(best) THEN current ELSE best

\* the reducer:  currentScore > bestScore ? current : best
PickBetter(best, current) ==
  IF scoreChargingStation(current) > scoreChargingStation(best) THEN current ELSE best

\* Array.prototype.reduce without an initial value, on a non-empty array
RECURSIVE ReduceFrom(_, _)
ReduceFrom(best, rest) ==
  IF rest = <<>> THEN best
  ELSE ReduceFrom(PickBetter(best, Head(rest)), Tail(rest))

\* the selection without the filter of lines 313-320
findBestChargingStation_Unfiltered(stations, v) ==
  IF Len(stations) = 0 THEN NoStation
  ELSE ReduceFrom(Head(stations), Tail(stations))

findBestChargingStation(stations, v) ==
  LET Compat(station) == IsCompatible(station, v)
      compatibleStations == SelectSeq(stations, Compat)
  IN  IF Len(compatibleStations) = 0 THEN NoStation
      ELSE ReduceFrom(Head(compatibleStations), Tail(compatibleStations))

(***************************************************************************)
(* calculateEnergyConsumption                                              *)
(***************************************************************************)
\* line 184: baseConsumption = distance * efficiency / 1000 kWh, here in tenths
\* of a kWh (distance in km, efficiency in Wh/km)
baseConsumption(distance, efficiency) == (distance * efficiency) \div 100

\* <<(a * b) \div c, (a * b) % c>> for a, b >= 0 and c > 0, by halving a, so
\* that no intermediate value exceeds 2 * c + b
RECURSIVE MulDivRem(_, _, _)
MulDivRem(a, b, c) ==
  IF a = 0 THEN <<0, 0>>
  ELSE LET h == MulDivRem(a \div 2, b, c)
           t == 2 * h[2] + (a % 2) * b
       IN  <<2 * h[1] + t \div c, t % c>>

MulDiv(a, b, c) == MulDivRem(a, b, c)[1]

\* an impact whose wind penalty starts at 30 km/h
calculateWeatherImpact_WindInclusive(w) ==
  LET cold == IF w.temperature < 0 THEN -30
              ELSE IF w.temperature < 10 THEN -15
              ELSE IF w.temperature > 35 THEN -10
              ELSE 0
      windy == IF w.windSpeed >= 30 THEN -5 ELSE 0
  IN  Max(-40, Min(10, cold + windy))

\* lines 350-360: the weatherImpact of the plan, in percent
calculateWeatherImpact(w) ==
  LET cold == IF w.temperature < 0 THEN -30
              ELSE IF w.temperature < 10 THEN -15
              ELSE IF w.temperature > 35 THEN -10
              ELSE 0
      windy == IF w.windSpeed > 30 THEN -5 ELSE 0
  IN  Max(-40, Min(10, cold + windy))

\* lines 200-217, in hundredths: 1.0, plus one temperature band, plus the wind
\* term min(0.2, windSpeed / 100).  temperature in degrees C, windSpeed in km/h.
temperatureBand(w) ==
  IF w.temperature < 0 THEN 30
  ELSE IF w.temperature < 10 THEN 15
  ELSE IF w.temperature > 35 THEN 10
  ELSE 0

\* a multiplier in which the larger of the two effects replaces their sum
getWeatherMultiplier_NotAdditive(w) == 100 + Max(temperatureBand(w), Min(20, w.windSpeed))

getWeatherMultiplier(w) == 100 + temperatureBand(w) + Min(20, w.windSpeed)

\* the air term without the 0.1 factor of line 230
calculateAirResistanceImpact_NoLossFactor(distance, v) ==
  MulDiv(distance, 490 * v.dragCoefficient * v.frontalArea, 58320)

\* lines 219-231: 0.5 * 1.225 * Cd * A * (80/3.6)^3 / 1000 * (distance / 80) * 0.1
\* = 49/5832 * Cd * A * distance[km] kWh; here in mWh (floor), distance in
\* metres, dragCoefficient and frontalArea in hundredths
calculateAirResistanceImpact(distance, v) ==
  MulDiv(distance, 49 * v.dragCoefficient * v.frontalArea, 58320)

\* the consumption with the climb credited instead of charged
calculateEnergyConsumption_ElevationCredit(distance, elevationGain, v, w) ==
  Max(0, MulDiv(getWeatherMultiplier(w),
                Max(0, distance * v.efficiency - elevationGain * v.mass
                       + calculateAirResistanceImpact(distance, v)),
                100000))

\* lines 177-198, in Wh (floor): distance in metres, elevationGain in metres,
\* efficiency in Wh/km, mass in kg.  distance * efficiency / 1000 kWh is
\* distance[m] * efficiency mWh; (gain / 100) * (mass / 1000) * 0.1 kWh is
\* gain * mass mWh.
calculateEnergyConsumption(distance, elevationGain, v, w) ==
  Max(0, MulDiv(getWeatherMultiplier(w),
                distance * v.efficiency + elevationGain * v.mass
                  + calculateAirResistanceImpact(distance, v),
                100000))

\* line 160: Math.round(energyRequired * 10) / 10, in tenths of a kWh
energyRequired(distance, elevationGain, v, w) ==
  (calculateEnergyConsumption(distance, elevationGain, v, w) + 50) \div 100

\* lines 165-172: totalGain, the sum of the climbs of a profile; elevations
\* and totalGain in tenths of a metre
RECURSIVE totalGain(_)
totalGain(elevationProfile) ==
  IF Len(elevationProfile) < 2 THEN 0
  ELSE (IF elevationProfile[2] - elevationProfile[1] > 0
        THEN elevationProfile[2] - elevationProfile[1] ELSE 0)
       + totalGain(Tail(elevationProfile))

\* a gain from which the descents are subtracted
calculateElevationGain_NetClimb(elevationProfile) ==
  IF Len(elevationProfile) < 2 THEN 0
  ELSE MathRound(elevationProfile[Len(elevationProfile)] - elevationProfile[1], 10)

\* lines 164-175: Math.round(totalGain), in metres
calculateElevationGain(elevationProfile) == MathRound(totalGain(elevationProfile), 10)

\* lines 233-253, in hundredths of a km/h (distance in metres)
estimateAverageSpeed(distance, w) ==
  LET baseSpeed == IF distance < 50000 THEN 6000
                   ELSE IF distance < 200000 THEN 7000 ELSE 8000
      wet == IF w.condition \in {"rain", "storm"} THEN (baseSpeed * 8) \div 10 ELSE baseSpeed
      windy == IF w.windSpeed > 50 THEN (wet * 9) \div 10 ELSE wet
  IN  Max(3000, windy)

(***************************************************************************)
(* Inputs of a planning request                                            *)
(***************************************************************************)
\* EVModel: batteryCapacity in tenths of a kWh, maxChargingSpeed in kW,
\* chargingPorts as the set of port types, efficiency in Wh/km, mass in kg,
\* dragCoefficient and frontalArea (m2) in hundredths
Vehicles ==
  { [batteryCapacity |-> 750, maxChargingSpeed |-> 150, chargingPorts |-> {"CCS2", "Type2"},
     efficiency |-> 150, mass |-> 1800, dragCoefficient |-> 23, frontalArea |-> 222],
    [batteryCapacity |-> 750, maxChargingSpeed |-> 50,  chargingPorts |-> {"Tesla"},
     efficiency |-> 180, mass |-> 2100, dragCoefficient |-> 28, frontalArea |-> 250],
    [batteryCapacity |-> 575, maxChargingSpeed |-> 170, chargingPorts |-> {"CCS2", "Tesla"},
     efficiency |-> 160, mass |-> 1600, dragCoefficient |-> 29, frontalArea |-> 230] }

\* initial state of charge, percent (the slider of RoutePlanner gives 5..100)
InitialSOCs == {0, 75, 80, 100}

\* segment.energyRequired, tenths of a kWh: 21.0 kWh, 45.0 kWh (60% of 75 kWh),
\* 67.5 kWh (450 km at 150 Wh/km)
Energies == {210, 450, 675}

\* the point that follows a point on a route of the model
NextPoint(p) ==
  CASE p = "Dubai" -> "AbuDhabi"
    [] p = "AbuDhabi" -> "Riyadh"
    [] p = "Riyadh" -> "Dubai"

RECURSIVE RouteFrom(_, _)
RouteFrom(p, n) == IF n = 0 THEN <<p>> ELSE <<p>> \o RouteFrom(NextPoint(p), n - 1)

\* the distance in metres and the duration in minutes of the segment that
\* needs each energy: 140.3 km, 300.4 km and 450.2 km
SegmentDistance == (210 :> 140300) @@ (450 :> 300400) @@ (675 :> 450200)
SegmentDuration == (210 :> 105) @@ (450 :> 180) @@ (675 :> 270)

\* RouteSegment lists: contiguous (segment[k].end = segment[k+1].start), one
\* energyRequired each.  calculateRouteSegments builds the lists of length 1.
SegmentLists ==
  { [k \in 1..Len(en) |->
       [start |-> RouteFrom(p, Len(en))[k], end |-> RouteFrom(p, Len(en))[k + 1],
        distance |-> SegmentDistance[en[k]], duration |-> SegmentDuration[en[k]],
        energyRequired |-> en[k]]] :
    p \in Points, en \in (SeqsUpTo(Energies, MaxSegments) \ {<<>>}) }

(***************************************************************************)
(* State                                                                   *)
(***************************************************************************)
VARIABLES
  vehicle,          \* calculateOptimalRoute: vehicle
  initialSOC,       \* calculateOptimalRoute: initialSOC, percent
  segments,         \* calculateOptimalRoute: segments
  pc,               \* where the request is
  segIndex,         \* findOptimalChargingStops: position of the for-of loop
  currentSOC,       \* findOptimalChargingStops: currentSOC * batteryCapacity
  currentPosition,  \* findOptimalChargingStops: currentPosition
  chargingStops,    \* findOptimalChargingStops: chargingStops
  request,          \* the PublicChargingStationsRequest in flight
  nearbyStations,   \* findOptimalChargingStops: nearbyStations.stations
  bestStation,      \* findOptimalChargingStops: bestStation
  plan,             \* the RoutePlan returned by calculateOptimalRoute
  answerSource,     \* history: the branch of getNearbyStations that answered
  scanLog,          \* history: one entry per segment the loop has finished
  evaluations,      \* history: the calls of calculateEnergyConsumption made so far
  ui,               \* RoutePlanner: where handlePlanRoute is
  isPlanning,       \* RoutePlanner: isPlanning
  error,            \* RoutePlanner: error
  delivered,        \* the plans handed to onPlanRoute, in order
  routeCalls,       \* history: the number of calculateOptimalRoute invocations
  origin,           \* RoutePlanner: origin (the text typed)
  destination,      \* RoutePlanner: destination (the text typed)
  geocodeResults,   \* handlePlanRoute: <<originResults, destinationResults>>
  originPoint,      \* handlePlanRoute: originPoint
  destinationPoint, \* handlePlanRoute: destinationPoint
  elevationProfile, \* calculateOptimalRoute: elevationProfile (elevations, 0.1 m)
  elevationSource,  \* history: the branch of getElevationProfile that answered
  weather,          \* calculateOptimalRoute: weather
  silent,           \* the provider awaited will never answer
  callNo,           \* the number of the planning request, 0 before the first
  previous,         \* history: what the first request was given and returned
  now,              \* Date.now()
  directoryLog,     \* history: the answers of getNearbyStations in this request
  running,          \* two calls at once: the call that has the thread, 0 when one call
  suspended         \* two calls at once: the activation of the call that waits

scanVars == << vehicle, initialSOC, segments, pc, segIndex, currentSOC, currentPosition,
               chargingStops, request, nearbyStations, bestStation, plan, answerSource,
               scanLog >>

\* the state of RoutePlanner and of calculateOptimalRoute before the scan
requestVars == << ui, isPlanning, error, delivered, routeCalls, origin, destination,
                  geocodeResults, originPoint, destinationPoint, elevationProfile, elevationSource,
                  weather, silent, callNo, previous, now >>

\* what findOptimalChargingStops and the assembly of the plan never touch
\* the second call of calculateOptimalRoute
taskVars == << running, suspended >>

outerVars == << evaluations, requestVars, directoryLog, taskVars >>

vars == << scanVars, outerVars >>

NoRequest == [at |-> "none"]
NoPlan == [id |-> "none"]
NoWeather == [condition |-> "none"]
NoPrevious == [plan |-> NoPlan]
NoResults == << "none", "none" >>
NoCall == [pc |-> "none"]

\* one call of calculateOptimalRoute at a time
OneCall == running = 0 /\ suspended = NoCall

\* no planning request of RoutePlanner is under way, none has been
NoPlanningRequest ==
  /\ ui = "none"
  /\ isPlanning = FALSE
  /\ error = "null"
  /\ delivered = <<>>
  /\ routeCalls = 0
  /\ origin = ""
  /\ destination = ""
  /\ geocodeResults = NoResults
  /\ originPoint = "none"
  /\ destinationPoint = "none"
  /\ elevationProfile = <<>>
  /\ elevationSource = "none"
  /\ weather = NoWeather
  /\ silent = FALSE
  /\ callNo = 0
  /\ previous = NoPrevious
  /\ now = 0
  /\ directoryLog = <<>>
  /\ OneCall

\* p percent, in the unit of currentSOC
Pct(p) == p * vehicle.batteryCapacity

\* socNeeded = energyNeeded / batteryCapacity * 100, in the unit of currentSOC
socNeeded(segment) == 100 * segment.energyRequired

Init ==
  /\ vehicle \in Vehicles
  /\ initialSOC \in InitialSOCs
  /\ segments \in SegmentLists
  /\ pc = "call"
  /\ segIndex = 0
  /\ currentSOC = 0
  /\ currentPosition = "none"
  /\ chargingStops = <<>>
  /\ request = NoRequest
  /\ nearbyStations = <<>>
  /\ bestStation = NoStation
  /\ plan = NoPlan
  /\ answerSource = "none"
  /\ scanLog = <<>>
  /\ evaluations = <<>>
  /\ NoPlanningRequest

(***************************************************************************)
(* findOptimalChargingStops                                                *)
(***************************************************************************)
\* lines 260-262: the locals of the scan
StartScan ==
  /\ pc = "call"
  /\ pc' = "scan"
  /\ segIndex' = 1
  /\ currentSOC' = Pct(initialSOC)
  /\ currentPosition' = segments[1].start
  /\ chargingStops' = <<>>
  /\ UNCHANGED << vehicle, initialSOC, segments, request, nearbyStations, bestStation,
                  plan, answerSource, scanLog >>
  /\ UNCHANGED outerVars

\* the buffer check with the boundary included
NeedsCharge_Inclusive(soc, segment) == soc - socNeeded(segment) <= Pct(BufferSOC)

\* the buffer check of line 270
NeedsCharge(soc, segment) == soc - socNeeded(segment) < Pct(BufferSOC)

\* the end of an iteration that leaves currentPosition where it was
Advance_KeepPosition(socBefore, socDeparture, looked, found, stopsAfter) ==
  LET segment == segments[segIndex]
      Compat(station) == IsCompatible(station, vehicle)
  IN
  /\ currentPosition' = currentPosition
  /\ currentSOC' = socDeparture - socNeeded(segment)
  /\ segIndex' = segIndex + 1
  /\ scanLog' = Append(scanLog,
        [origin |-> currentPosition, socBefore |-> socBefore,
         socNeeded |-> socNeeded(segment), looked |-> looked,
         eligible |-> Len(SelectSeq(nearbyStations, Compat)) > 0, found |-> found,
         stops |-> stopsAfter, socAfter |-> currentSOC'])

\* lines 304-306 and the history entry of the finished iteration
Advance(socBefore, socDeparture, looked, found, stopsAfter) ==
  LET segment == segments[segIndex]
      Compat(station) == IsCompatible(station, vehicle)
  IN
  /\ currentPosition' = segment.end
  /\ currentSOC' = socDeparture - socNeeded(segment)
  /\ segIndex' = segIndex + 1
  /\ scanLog' = Append(scanLog,
        [origin |-> currentPosition, socBefore |-> socBefore,
         socNeeded |-> socNeeded(segment), looked |-> looked,
         eligible |-> Len(SelectSeq(nearbyStations, Compat)) > 0, found |-> found,
         stops |-> stopsAfter, socAfter |-> currentSOC'])

\* an iteration whose buffer check passes: lines 266-270, 304-306
DriveSegment ==
  /\ pc = "scan"
  /\ segIndex <= Len(segments)
  /\ ~ NeedsCharge(currentSOC, segments[segIndex])
  /\ Advance(currentSOC, currentSOC, FALSE, FALSE, Len(chargingStops))
  /\ UNCHANGED << vehicle, initialSOC, segments, pc, chargingStops, request,
                  nearbyStations, bestStation, plan, answerSource >>
  /\ UNCHANGED outerVars

\* an iteration whose buffer check fails: lines 266-277, up to the await
RequestStations ==
  /\ pc = "scan"
  /\ segIndex <= Len(segments)
  /\ NeedsCharge(currentSOC, segments[segIndex])
  /\ request' = [at |-> currentPosition, radiusKm |-> LookupRadiusKm,
                 connectorTypes |-> vehicle.chargingPorts]
  /\ pc' = "lookup"
  /\ UNCHANGED << vehicle, initialSOC, segments, segIndex, currentSOC, currentPosition,
                  chargingStops, nearbyStations, bestStation, plan, answerSource,
                  scanLog >>
  /\ UNCHANGED outerVars

(***************************************************************************)
(* getNearbyStations, and findOptimalChargingStops resumed at line 280      *)
(***************************************************************************)
\* the await of line 272 resolves with `stations`; line 280 selects
Resume(stations, source) ==
  /\ ~ silent
  /\ callNo = 2 =>
       /\ Len(directoryLog) < Len(previous.directoryLog)
       /\ previous.directoryLog[Len(directoryLog) + 1] = [stations |-> stations, source |-> source]
  /\ directoryLog' = IF callNo = 0 THEN directoryLog
                     ELSE Append(directoryLog, [stations |-> stations, source |-> source])
  /\ nearbyStations' = stations
  /\ answerSource' = source
  /\ bestStation' = findBestChargingStation(stations, vehicle)
  /\ pc' = "charge"
  /\ request' = NoRequest
  /\ UNCHANGED << vehicle, initialSOC, segments, segIndex, currentSOC, currentPosition,
                  chargingStops, plan, scanLog >>
  /\ UNCHANGED << evaluations, requestVars, taskVars >>

\* getNearbyStations lines 67-77: the live request succeeds; the answer is
\* what transformStations made of it
LiveAnswer ==
  /\ pc = "lookup"
  /\ \E stations \in SeqsUpTo(LiveStations, MaxStations) : Resume(stations, "live")

\* getNearbyStations lines 69-72 and 78-81: the live request fails (status
\* not ok, or throws)
FallbackAnswer ==
  /\ pc = "lookup"
  /\ Resume(getFallbackStations(request), "fallback")

(***************************************************************************)
(* findOptimalChargingStops, lines 282-306                                 *)
(***************************************************************************)
\* the charging power without the vehicle's limit
chargingPower_StationOnly(station, v) == station.maxPower

\* lines 286-289
chargingPower(station, v) == Min(station.maxPower, v.maxChargingSpeed)

\* a ChargingStop whose energy is computed from the rounded arrival SOC
ChargingSession_FromRoundedArrival(station, soc, v) ==
  LET arrival == MathRound(soc, v.batteryCapacity)
  IN  [station |-> station,
       arrivalSOC |-> arrival,
       departureSOC |-> targetSOC,
       chargingTime |-> MathRound((Pct(targetSOC) - soc) * 60, 1000 * chargingPower(station, v)),
       energyAdded |-> MathRound(v.batteryCapacity * (targetSOC - arrival), 100)]

\* lines 284-298: the ChargingStop of a session at `station` entered with `soc`.
\* energyToAdd = batteryCapacity * (targetSOC - currentSOC) / 100 is
\* (Pct(targetSOC) - soc) / 1000 kWh.
ChargingSession(station, soc, v) ==
  LET energyToAdd1000 == Pct(targetSOC) - soc
  IN  [station |-> station,
       arrivalSOC |-> MathRound(soc, v.batteryCapacity),
       departureSOC |-> targetSOC,
       chargingTime |-> MathRound(energyToAdd1000 * 60, 1000 * chargingPower(station, v)),
       energyAdded |-> MathRound(energyToAdd1000, 100)]

\* lines 282-306 with a station
InsertStop ==
  /\ pc = "charge"
  /\ bestStation # NoStation
  /\ chargingStops' = Append(chargingStops, ChargingSession(bestStation, currentSOC, vehicle))
  /\ Advance(currentSOC, Pct(targetSOC), TRUE, TRUE, Len(chargingStops) + 1)
  /\ pc' = "scan"
  /\ nearbyStations' = <<>>
  /\ bestStation' = NoStation
  /\ answerSource' = "none"
  /\ UNCHANGED << vehicle, initialSOC, segments, request, plan >>
  /\ UNCHANGED outerVars

\* lines 282, 304-306 without a station
SkipStop ==
  /\ pc = "charge"
  /\ bestStation = NoStation
  /\ chargingStops' = chargingStops
  /\ Advance(currentSOC, currentSOC, TRUE, FALSE, Len(chargingStops))
  /\ pc' = "scan"
  /\ nearbyStations' = <<>>
  /\ bestStation' = NoStation
  /\ answerSource' = "none"
  /\ UNCHANGED << vehicle, initialSOC, segments, request, plan >>
  /\ UNCHANGED outerVars

(***************************************************************************)
(* calculateOptimalRoute, after findOptimalChargingStops                   *)
(***************************************************************************)
\* lines 56, 72: totalEnergyUsed, tenths of a kWh
totalEnergyUsed(segs) == SumSeq([k \in 1..Len(segs) |-> segs[k].energyRequired])

\* line 59: energyAdded, tenths of a kWh
totalEnergyAdded(stops) == SumSeq([k \in 1..Len(stops) |-> stops[k].energyAdded])

\* line 55
totalChargingTime(stops) == SumSeq([k \in 1..Len(stops) |-> stops[k].chargingTime])

\* line 53: segments.reduce((sum, seg) => sum + seg.distance, 0), in metres
totalSegmentDistance(segs) == SumSeq([k \in 1..Len(segs) |-> segs[k].distance])

\* line 54: segments.reduce((sum, seg) => sum + seg.duration, 0), in minutes
totalDrivingTime(segs) == SumSeq([k \in 1..Len(segs) |-> segs[k].duration])

\* a total duration that leaves the charging time out
totalDuration_DrivingOnly(segs, stops) == totalDrivingTime(segs)

\* line 70: Math.round(totalDrivingTime + totalChargingTime), whole minutes
totalDuration(segs, stops) == totalDrivingTime(segs) + totalChargingTime(stops)

\* initialSOC - totalEnergyUsed / cap * 100 + energyAdded / cap * 100,
\* in the unit of currentSOC
RawFinalSOC(soc0, segs, stops, v) ==
  soc0 * v.batteryCapacity - 100 * totalEnergyUsed(segs) + 100 * totalEnergyAdded(stops)

\* the final SOC without the floor at 0
FinalSOC_NoFloor(soc0, segs, stops, v) ==
  MathRound(RawFinalSOC(soc0, segs, stops, v), v.batteryCapacity)

\* a final SOC that leaves the energy added at the stops out
FinalSOC_IgnoringCharge(soc0, segs, stops, v) ==
  MathRound(Max(0, soc0 * v.batteryCapacity - 100 * totalEnergyUsed(segs)),
            v.batteryCapacity)

\* line 60 and line 73: Math.round(Math.max(0, ...))
FinalSOC(soc0, segs, stops, v) ==
  MathRound(Max(0, RawFinalSOC(soc0, segs, stops, v)), v.batteryCapacity)

\* lines 52-75: the loop has ended, the plan is assembled and returned
ReturnPlan ==
  /\ pc = "scan"
  /\ segIndex > Len(segments)
  /\ plan' = [id |-> now,
              initialSOC |-> initialSOC,
              segments |-> segments,
              chargingStops |-> chargingStops,
              totalDistance |-> MathRound(totalSegmentDistance(segments), 1000),
              totalDuration |-> totalDuration(segments, chargingStops),
              totalChargingTime |-> totalChargingTime(chargingStops),
              totalEnergyUsed |-> totalEnergyUsed(segments),
              finalSOC |-> FinalSOC(initialSOC, segments, chargingStops, vehicle)]
  /\ pc' = "done"
  /\ UNCHANGED << vehicle, initialSOC, segments, segIndex, currentSOC, currentPosition,
                  chargingStops, request, nearbyStations, bestStation, answerSource,
                  scanLog >>
  /\ UNCHANGED outerVars

Next ==
  \/ StartScan
  \/ DriveSegment
  \/ RequestStations
  \/ LiveAnswer
  \/ FallbackAnswer
  \/ InsertStop
  \/ SkipStop
  \/ ReturnPlan

Spec == Init /\ [][Next]_vars

TypeOK ==
  /\ pc \in {"none", "elevation", "weather", "failed", "energy", "impact", "gain",
             "call", "scan", "lookup", "charge", "done"}
  /\ segIndex \in 0..(Len(segments) + 1)
  /\ Len(chargingStops) <= Len(segments)

(***************************************************************************)
(* Two calls of calculateOptimalRoute on the singleton services            *)
(***************************************************************************)
\* The state variables of the scan hold the locals of the call that has the
\* thread; the locals of the other call wait in `suspended`.  JavaScript
\* runs a call without interruption from one await to the next, so the thread
\* changes hands only where the running call awaits, has not started its
\* scan, or has returned.

\* the activation of the running call: its arguments and its locals
Activation ==
  [vehicle |-> vehicle, initialSOC |-> initialSOC, segments |-> segments, pc |-> pc,
   segIndex |-> segIndex, currentSOC |-> currentSOC, currentPosition |-> currentPosition,
   chargingStops |-> chargingStops, request |-> request,
   nearbyStations |-> nearbyStations, bestStation |-> bestStation, plan |-> plan,
   answerSource |-> answerSource, scanLog |-> scanLog]

\* the arguments of the two calls: two vehicles that charge at CCS2, two
\* initial SOCs, two lists of two segments from Dubai
PairVehicles == { v \in Vehicles : "CCS2" \in v.chargingPorts }
PairSOCs == {75, 100}
PairSegmentLists ==
  { l \in SegmentLists : /\ Len(l) = 2
                         /\ l[1].start = "Dubai"
                         /\ l[1].energyRequired \in {210, 675}
                         /\ l[2].energyRequired = 210 }

\* the live answers of the directory to the two calls: no station, or one
PairAnswers == { <<>> } \cup { <<station>> : station \in LiveStations }

PairInit ==
  /\ vehicle \in PairVehicles
  /\ initialSOC \in PairSOCs
  /\ segments \in PairSegmentLists
  /\ pc = "call"
  /\ segIndex = 0
  /\ currentSOC = 0
  /\ currentPosition = "none"
  /\ chargingStops = <<>>
  /\ request = NoRequest
  /\ nearbyStations = <<>>
  /\ bestStation = NoStation
  /\ plan = NoPlan
  /\ answerSource = "none"
  /\ scanLog = <<>>
  /\ evaluations = <<>>
  /\ ui = "none"
  /\ isPlanning = FALSE
  /\ error = "null"
  /\ delivered = <<>>
  /\ routeCalls = 0
  /\ origin = ""
  /\ destination = ""
  /\ geocodeResults = NoResults
  /\ originPoint = "none"
  /\ destinationPoint = "none"
  /\ elevationProfile = <<>>
  /\ elevationSource = "none"
  /\ weather = NoWeather
  /\ silent = FALSE
  /\ callNo = 0
  /\ previous = NoPrevious
  /\ now = 0
  /\ directoryLog = <<>>
  /\ running = 1
  /\ \E v \in PairVehicles, soc \in PairSOCs, segs \in PairSegmentLists :
       suspended = [vehicle |-> v, initialSOC |-> soc, segments |-> segs, pc |-> "call",
                    segIndex |-> 0, currentSOC |-> 0, currentPosition |-> "none",
                    chargingStops |-> <<>>, request |-> NoRequest,
                    nearbyStations |-> <<>>, bestStation |-> NoStation, plan |-> NoPlan,
                    answerSource |-> "none", scanLog |-> <<>>]

\* the running call awaits (line 272), has not begun its scan, or has returned
AtAwait == pc \in {"call", "lookup", "done"}

\* the thread changes hands with currentSOC, currentPosition and the stop
\* list kept in one place for both calls
Switch_SharedAccumulator ==
  /\ AtAwait
  /\ running' = 3 - running
  /\ suspended' = Activation
  /\ vehicle' = suspended.vehicle
  /\ initialSOC' = suspended.initialSOC
  /\ segments' = suspended.segments
  /\ pc' = suspended.pc
  /\ segIndex' = suspended.segIndex
  /\ currentSOC' = currentSOC
  /\ currentPosition' = currentPosition
  /\ chargingStops' = chargingStops
  /\ request' = suspended.request
  /\ nearbyStations' = suspended.nearbyStations
  /\ bestStation' = suspended.bestStation
  /\ plan' = suspended.plan
  /\ answerSource' = suspended.answerSource
  /\ scanLog' = suspended.scanLog
  /\ UNCHANGED << evaluations, requestVars, directoryLog >>

\* lines 260-262: chargingStops, currentSOC and currentPosition are locals of
\* findOptimalChargingStops, so each call has its own; the thread changes
\* hands and every local of the running call waits with it
Switch ==
  /\ AtAwait
  /\ running' = 3 - running
  /\ suspended' = Activation
  /\ vehicle' = suspended.vehicle
  /\ initialSOC' = suspended.initialSOC
  /\ segments' = suspended.segments
  /\ pc' = suspended.pc
  /\ segIndex' = suspended.segIndex
  /\ currentSOC' = suspended.currentSOC
  /\ currentPosition' = suspended.currentPosition
  /\ chargingStops' = suspended.chargingStops
  /\ request' = suspended.request
  /\ nearbyStations' = suspended.nearbyStations
  /\ bestStation' = suspended.bestStation
  /\ plan' = suspended.plan
  /\ answerSource' = suspended.answerSource
  /\ scanLog' = suspended.scanLog
  /\ UNCHANGED << evaluations, requestVars, directoryLog >>

\* getNearbyStations lines 67-77 for one of the two calls
PairLiveAnswer ==
  /\ pc = "lookup"
  /\ \E stations \in PairAnswers : Resume(stations, "live")

PairNext ==
  \/ StartScan
  \/ DriveSegment
  \/ RequestStations
  \/ PairLiveAnswer
  \/ FallbackAnswer
  \/ InsertStop
  \/ SkipStop
  \/ ReturnPlan
  \/ Switch

PairSpec == PairInit /\ [][PairNext]_vars

(***************************************************************************)
(* calculateEnergyConsumption as a function of its arguments               *)
(***************************************************************************)
\* the number of calls compared with each other
MaxEvaluations == 2

\* distances in metres: none, 100 m, 3 km, Dubai to Abu Dhabi, 450 km
Distances == {0, 100, 3000, 122889, 450000}

\* elevation gains in metres
ElevationGains == {0, 40, 500}

\* WeatherData: temperature in degrees C, windSpeed in km/h
WeatherSamples ==
  [temperature : {-5, 5, 25, 40}, windSpeed : {0, 10, 30}, condition : {"clear"}]

\* one call of calculateEnergyConsumption (Wh) and the energyRequired that
\* calculateRouteSegments makes of it (tenths of a kWh)
Evaluation(d, gain, w) ==
  [distance |-> d, elevationGain |-> gain, weather |-> w,
   consumption |-> calculateEnergyConsumption(d, gain, vehicle, w),
   energyRequired |-> energyRequired(d, gain, vehicle, w)]

EnergyInit ==
  /\ vehicle \in Vehicles
  /\ initialSOC = 0
  /\ segments = <<>>
  /\ pc = "energy"
  /\ segIndex = 0
  /\ currentSOC = 0
  /\ currentPosition = "none"
  /\ chargingStops = <<>>
  /\ request = NoRequest
  /\ nearbyStations = <<>>
  /\ bestStation = NoStation
  /\ plan = NoPlan
  /\ answerSource = "none"
  /\ scanLog = <<>>
  /\ evaluations = <<>>
  /\ NoPlanningRequest

\* a first call, with any trip and weather
EvaluateTrip ==
  /\ pc = "energy"
  /\ evaluations = <<>>
  /\ \E d \in Distances, gain \in ElevationGains, w \in WeatherSamples :
       evaluations' = <<Evaluation(d, gain, w)>>
  /\ UNCHANGED << scanVars, requestVars, directoryLog, taskVars >>

\* a further call for another trip in the same weather
EvaluateOtherTrip ==
  /\ pc = "energy"
  /\ Len(evaluations) \in 1..(MaxEvaluations - 1)
  /\ LET last == evaluations[Len(evaluations)]
     IN  \E d \in Distances, gain \in ElevationGains :
           /\ <<d, gain>> # <<last.distance, last.elevationGain>>
           /\ evaluations' = Append(evaluations, Evaluation(d, gain, last.weather))
  /\ UNCHANGED << scanVars, requestVars, directoryLog, taskVars >>

\* a further call for the same trip in another weather
EvaluateOtherWeather ==
  /\ pc = "energy"
  /\ Len(evaluations) \in 1..(MaxEvaluations - 1)
  /\ LET last == evaluations[Len(evaluations)]
     IN  \E w \in WeatherSamples \ {last.weather} :
           evaluations' = Append(evaluations,
                                 Evaluation(last.distance, last.elevationGain, w))
  /\ UNCHANGED << scanVars, requestVars, directoryLog, taskVars >>

EnergyNext ==
  \/ EvaluateTrip
  \/ EvaluateOtherTrip
  \/ EvaluateOtherWeather

EnergySpec == EnergyInit /\ [][EnergyNext]_vars

(***************************************************************************)
(* A planning request of RoutePlanner: inputs and provider answers         *)
(***************************************************************************)
\* calculateDistance (lines 362-371) between the points of the model, metres
RouteDistanceTable ==
  ("Dubai" :> ("Dubai" :> 0 @@ "AbuDhabi" :> 122889 @@ "Riyadh" :> 868085))
  @@ ("AbuDhabi" :> ("Dubai" :> 122889 @@ "AbuDhabi" :> 0 @@ "Riyadh" :> 779225))
  @@ ("Riyadh" :> ("Dubai" :> 868085 @@ "AbuDhabi" :> 779225 @@ "Riyadh" :> 0))

calculateRouteDistance(a, b) == RouteDistanceTable[a][b]

\* the SOC slider of RoutePlanner: 5..100 in steps of 5
SliderSOCs == {5, 75, 80}

\* Geocoder.resolve(text): a list of results, of which handlePlanRoute reads
\* the first; the text is the name of the point it resolves to
geocode(text) == {<<>>, <<text>>}

\* line 85: the numPoints that getElevationProfile asks for
NumPoints == 10

\* lines 116-128: the points at ratio i / numPoints of the straight line from
\* start to end, for i = 0, ..., numPoints (the loop runs while i <= numPoints)
interpolateRoutePoints(start, end, numPoints) ==
  [k \in 1..(numPoints + 1) |->
     [from |-> start, to |-> end, ratio |-> <<k - 1, numPoints>>]]

\* bodies of a successful elevation response: data.results, elevations in
\* tenths of a metre
ElevationResponses ==
  { <<[elevation |-> 500], [elevation |-> 500], [elevation |-> 500]>>,
    <<[elevation |-> 50], [latitude |-> 24], [elevation |-> 5200]>> }

\* line 102: result.elevation || 0
elevationOf(result) == IF "elevation" \in DOMAIN result THEN result.elevation ELSE 0

\* a fallback profile that climbs
flatProfile_Climbing == <<0, 500>>

\* lines 105-113: the profile of the catch branch, 50 m at both ends
flatProfile == <<500, 500>>

\* WeatherProvider.fetchCurrent: the samples it resolves with
CurrentWeather ==
  { [temperature |-> 25, windSpeed |-> 10, condition |-> "clear"],
    [temperature |-> -5, windSpeed |-> 30, condition |-> "rain"] }

\* a route cut into two legs of half the distance each
calculateRouteSegments_TwoLegs(from, to, v, profile, w) ==
  LET half == calculateRouteDistance(from, to) \div 2
      elevationGain == calculateElevationGain(profile)
      leg(a, b) == [start |-> a, end |-> b,
                    distance |-> half,
                    duration |-> MathRound(half * 6, estimateAverageSpeed(half, w)),
                    elevationGain |-> elevationGain,
                    energyRequired |-> energyRequired(half, elevationGain, v, w)]
  IN  << leg(from, to), leg(to, to) >>

\* lines 130-162: the one segment of the route (distance in metres, duration
\* in minutes, energyRequired in tenths of a kWh)
calculateRouteSegments(from, to, v, profile, w) ==
  LET totalDistance == calculateRouteDistance(from, to)
      elevationGain == calculateElevationGain(profile)
  IN  << [start |-> from, end |-> to,
          distance |-> totalDistance,
          duration |-> MathRound(totalDistance * 6, estimateAverageSpeed(totalDistance, w)),
          elevationGain |-> elevationGain,
          energyRequired |-> energyRequired(totalDistance, elevationGain, v, w)] >>

RouteInit ==
  /\ vehicle \in Vehicles
  /\ initialSOC \in SliderSOCs
  /\ origin \in Points
  /\ destination \in Points
  /\ segments = <<>>
  /\ pc = "none"
  /\ segIndex = 0
  /\ currentSOC = 0
  /\ currentPosition = "none"
  /\ chargingStops = <<>>
  /\ request = NoRequest
  /\ nearbyStations = <<>>
  /\ bestStation = NoStation
  /\ plan = NoPlan
  /\ answerSource = "none"
  /\ scanLog = <<>>
  /\ evaluations = <<>>
  /\ ui = "idle"
  /\ isPlanning = FALSE
  /\ error = "null"
  /\ delivered = <<>>
  /\ routeCalls = 0
  /\ geocodeResults = NoResults
  /\ originPoint = "none"
  /\ destinationPoint = "none"
  /\ elevationProfile = <<>>
  /\ elevationSource = "none"
  /\ weather = NoWeather
  /\ silent = FALSE
  /\ callNo = 0
  /\ previous = NoPrevious
  /\ now = 0
  /\ directoryLog = <<>>
  /\ OneCall

\* what a step of handlePlanRoute outside calculateOptimalRoute leaves alone
routeLocals == << segments, pc, segIndex, currentSOC, currentPosition, chargingStops,
                  request, nearbyStations, bestStation, plan, answerSource, scanLog,
                  elevationProfile, elevationSource, weather, directoryLog >>

(***************************************************************************)
(* calculateWeatherImpact as a function of the weather                     *)
(***************************************************************************)
\* the weather ranges over -MaxFrost..MaxTemperature degrees C and
\* 0..MaxWindSpeed km/h
MaxFrost == 20
MaxTemperature == 45
MaxWindSpeed == 40

WeatherRange ==
  [temperature : (0 - MaxFrost)..MaxTemperature, windSpeed : 0..MaxWindSpeed,
   condition : {"clear"}]

ImpactInit ==
  /\ vehicle \in Vehicles
  /\ initialSOC = 0
  /\ segments = <<>>
  /\ pc = "impact"
  /\ segIndex = 0
  /\ currentSOC = 0
  /\ currentPosition = "none"
  /\ chargingStops = <<>>
  /\ request = NoRequest
  /\ nearbyStations = <<>>
  /\ bestStation = NoStation
  /\ plan = NoPlan
  /\ answerSource = "none"
  /\ scanLog = <<>>
  /\ evaluations = <<>>
  /\ ui = "none"
  /\ isPlanning = FALSE
  /\ error = "null"
  /\ delivered = <<>>
  /\ routeCalls = 0
  /\ origin = ""
  /\ destination = ""
  /\ geocodeResults = NoResults
  /\ originPoint = "none"
  /\ destinationPoint = "none"
  /\ elevationProfile = <<>>
  /\ elevationSource = "none"
  /\ weather \in WeatherRange
  /\ silent = FALSE
  /\ callNo = 0
  /\ previous = NoPrevious
  /\ now = 0
  /\ directoryLog = <<>>
  /\ OneCall

\* line 74: weatherImpact: this.calculateWeatherImpact(weather)
EvaluateWeatherImpact ==
  /\ pc = "impact"
  /\ evaluations = <<>>
  /\ evaluations' = << [weather |-> weather,
                        weatherImpact |-> calculateWeatherImpact(weather)] >>
  /\ UNCHANGED << scanVars, requestVars, directoryLog, taskVars >>

ImpactNext == EvaluateWeatherImpact

ImpactSpec == ImpactInit /\ [][ImpactNext]_vars

(***************************************************************************)
(* calculateElevationGain as a function of the profile                     *)
(***************************************************************************)
\* the longest profile
MaxSamples == 4

\* elevations in tenths of a metre: sea level, 0.4 m, 0.5 m, 50 m, 123.4 m
ElevationSamples == {0, 4, 5, 500, 1234}

GainInit ==
  /\ vehicle \in Vehicles
  /\ initialSOC = 0
  /\ segments = <<>>
  /\ pc = "gain"
  /\ segIndex = 0
  /\ currentSOC = 0
  /\ currentPosition = "none"
  /\ chargingStops = <<>>
  /\ request = NoRequest
  /\ nearbyStations = <<>>
  /\ bestStation = NoStation
  /\ plan = NoPlan
  /\ answerSource = "none"
  /\ scanLog = <<>>
  /\ evaluations = <<>>
  /\ ui = "none"
  /\ isPlanning = FALSE
  /\ error = "null"
  /\ delivered = <<>>
  /\ routeCalls = 0
  /\ origin = ""
  /\ destination = ""
  /\ geocodeResults = NoResults
  /\ originPoint = "none"
  /\ destinationPoint = "none"
  /\ elevationProfile \in SeqsUpTo(ElevationSamples, MaxSamples)
  /\ elevationSource = "none"
  /\ weather = NoWeather
  /\ silent = FALSE
  /\ callNo = 0
  /\ previous = NoPrevious
  /\ now = 0
  /\ directoryLog = <<>>
  /\ OneCall

\* line 140: const elevationGain = this.calculateElevationGain(elevationProfile)
EvaluateElevationGain ==
  /\ pc = "gain"
  /\ evaluations = <<>>
  /\ evaluations' = << [profile |-> elevationProfile,
                        elevationGain |-> calculateElevationGain(elevationProfile)] >>
  /\ UNCHANGED << scanVars, requestVars, directoryLog, taskVars >>

GainNext == EvaluateElevationGain

GainSpec == GainInit /\ [][GainNext]_vars

(***************************************************************************)
(* RoutePlanner.handlePlanRoute                                            *)
(***************************************************************************)
\* lines 25-35 and 188-192, the first request: the button is enabled, the
\* guard, setIsPlanning(true), setError(null), and the two geocode calls
PlanRoute ==
  /\ ~ isPlanning
  /\ callNo = 0
  /\ origin # "" /\ destination # ""
  /\ isPlanning' = TRUE
  /\ error' = "null"
  /\ ui' = "geocode"
  /\ callNo' = 1
  /\ geocodeResults' = NoResults
  /\ UNCHANGED << vehicle, initialSOC, routeLocals, evaluations, delivered, routeCalls,
                  origin, destination, taskVars, originPoint, destinationPoint, silent, previous,
                  now >>

\* lines 25-35 again, with the same form, after a request that delivered a
\* plan; what that request was given and returned is kept for comparison
PlanRouteAgain ==
  /\ ~ isPlanning
  /\ callNo = 1
  /\ Len(delivered) = 1
  /\ previous' = [originPoint |-> originPoint, destinationPoint |-> destinationPoint,
                  elevationProfile |-> elevationProfile, weather |-> weather,
                  directoryLog |-> directoryLog, plan |-> plan]
  /\ \E elapsed \in 0..1 : now' = now + elapsed
  /\ isPlanning' = TRUE
  /\ error' = "null"
  /\ ui' = "geocode"
  /\ callNo' = 2
  /\ geocodeResults' = NoResults
  /\ UNCHANGED << vehicle, initialSOC, routeLocals, evaluations, delivered, routeCalls,
                  origin, destination, taskVars, originPoint, destinationPoint, silent >>

\* a catch without the finally block
FailRequest_NoFinally(message) ==
  /\ error' = message
  /\ isPlanning' = isPlanning
  /\ ui' = "idle"

\* lines 69-74: catch and finally
FailRequest(message) ==
  /\ error' = message
  /\ isPlanning' = FALSE
  /\ ui' = "idle"

\* the checks with the destination looked at first
geocodeError_DestinationFirst(originResults, destinationResults) ==
  IF destinationResults = <<>> THEN "Destination location not found"
  ELSE IF originResults = <<>> THEN "Origin location not found"
  ELSE "null"

\* lines 38-43: the message of the error thrown, "null" when none is
geocodeError(originResults, destinationResults) ==
  IF originResults = <<>> THEN "Origin location not found"
  ELSE IF destinationResults = <<>> THEN "Destination location not found"
  ELSE "null"

\* lines 33-43 and 69-74: a geocode call resolves with no result
GeocodeNotFound ==
  /\ ui = "geocode"
  /\ callNo = 1
  /\ \E originResults \in geocode(origin), destinationResults \in geocode(destination) :
       /\ geocodeError(originResults, destinationResults) # "null"
       /\ geocodeResults' = <<originResults, destinationResults>>
       /\ FailRequest(geocodeError(originResults, destinationResults))
  /\ UNCHANGED << vehicle, initialSOC, routeLocals, evaluations, delivered, routeCalls,
                  origin, destination, taskVars, originPoint, destinationPoint, silent, callNo,
                  previous, now >>

\* lines 33-36 and 69-74: a geocode call rejects
GeocodeRejects ==
  /\ ui = "geocode"
  /\ callNo = 1
  /\ FailRequest("Geocoding failed")
  /\ UNCHANGED << vehicle, initialSOC, routeLocals, evaluations, delivered, routeCalls,
                  origin, destination, taskVars, originPoint, destinationPoint, geocodeResults, silent, callNo,
                  previous, now >>

\* lines 33-61: both geocode calls resolve with a result and
\* calculateOptimalRoute is invoked; it runs to the fetch of line 87, whose
\* body holds the interpolated points (lines 85-92)
GeocodeFound ==
  /\ ui = "geocode"
  /\ \E originResults \in geocode(origin), destinationResults \in geocode(destination) :
       /\ geocodeError(originResults, destinationResults) = "null"
       /\ geocodeResults' = <<originResults, destinationResults>>
       /\ callNo = 2 => /\ originResults[1] = previous.originPoint
                        /\ destinationResults[1] = previous.destinationPoint
       /\ originPoint' = originResults[1]
       /\ destinationPoint' = destinationResults[1]
  /\ routeCalls' = routeCalls + 1
  /\ ui' = "route"
  /\ pc' = "elevation"
  /\ segments' = <<>>
  /\ segIndex' = 0
  /\ currentSOC' = 0
  /\ currentPosition' = "none"
  /\ chargingStops' = <<>>
  /\ plan' = NoPlan
  /\ scanLog' = <<>>
  /\ elevationProfile' = <<>>
  /\ elevationSource' = "none"
  /\ weather' = NoWeather
  /\ directoryLog' = <<>>
  /\ request' = [locations |->
                   interpolateRoutePoints(originPoint', destinationPoint', NumPoints)]
  /\ UNCHANGED << vehicle, initialSOC, nearbyStations, bestStation, answerSource,
                  evaluations, isPlanning, error, delivered, origin, destination, taskVars, silent,
                  callNo, previous, now >>

\* lines 56-67 and 72-74: calculateOptimalRoute has returned; onPlanRoute gets the
\* plan and the finally block clears isPlanning
DeliverPlan ==
  /\ ui = "route"
  /\ pc = "done"
  /\ delivered' = Append(delivered, plan)
  /\ isPlanning' = FALSE
  /\ ui' = "idle"
  /\ UNCHANGED << vehicle, initialSOC, routeLocals, evaluations, error, routeCalls,
                  origin, destination, taskVars, originPoint, destinationPoint, geocodeResults, silent, callNo,
                  previous, now >>

(***************************************************************************)
(* calculateOptimalRoute before findOptimalChargingStops                   *)
(***************************************************************************)
\* what the steps before the scan leave alone
scanLocals == << segIndex, currentSOC, currentPosition, chargingStops, request,
                 nearbyStations, bestStation, plan, answerSource, scanLog, directoryLog >>

\* getElevationProfile resolves with `profile`; line 31 asks for the weather
\* (RoutePlanner passes no weatherData)
ProfileKnown(profile, source) ==
  /\ ~ silent
  /\ callNo = 2 => profile = previous.elevationProfile
  /\ elevationProfile' = profile
  /\ elevationSource' = source
  /\ pc' = "weather"
  /\ request' = NoRequest
  /\ UNCHANGED << vehicle, initialSOC, segments, segIndex, currentSOC, currentPosition,
                  chargingStops, nearbyStations, bestStation, plan, answerSource,
                  scanLog, directoryLog, evaluations, ui, isPlanning,
                  error, delivered, routeCalls, origin, destination, taskVars, originPoint,
                  destinationPoint, geocodeResults, weather, silent, callNo, previous, now >>

\* getElevationProfile lines 87-104: the response is ok
ElevationAnswer ==
  /\ pc = "elevation"
  /\ \E results \in ElevationResponses :
       ProfileKnown([k \in 1..Len(results) |-> elevationOf(results[k])], "live")

\* getElevationProfile lines 95-97 and 105-113: the fetch throws or the
\* response is not ok
ElevationFails ==
  /\ pc = "elevation"
  /\ ProfileKnown(flatProfile, "fallback")

\* lines 31-50: the weather lookup resolves; calculateRouteSegments builds the
\* segment and findOptimalChargingStops is called
WeatherAnswer ==
  /\ pc = "weather"
  /\ \E w \in CurrentWeather :
       /\ callNo = 2 => w = previous.weather
       /\ weather' = w
       /\ segments' = calculateRouteSegments(originPoint, destinationPoint, vehicle,
                                             elevationProfile, w)
  /\ pc' = "call"
  /\ UNCHANGED << vehicle, initialSOC, scanLocals, evaluations, ui, isPlanning, error,
                  delivered, routeCalls, origin, destination, taskVars, originPoint,
                  destinationPoint, geocodeResults, elevationProfile, elevationSource, silent, callNo,
                  previous, now >>

\* lines 31-34, 76-79, and handlePlanRoute 69-74: the weather lookup rejects,
\* the catch of calculateOptimalRoute throws 'Failed to calculate optimal
\* route' and handlePlanRoute shows it
WeatherFails ==
  /\ pc = "weather"
  /\ callNo = 1
  /\ pc' = "failed"
  /\ FailRequest("Failed to calculate optimal route")
  /\ UNCHANGED << vehicle, initialSOC, segments, scanLocals, evaluations, delivered,
                  routeCalls, origin, destination, taskVars, originPoint, destinationPoint, geocodeResults,
                  elevationProfile, elevationSource, weather, silent, callNo, previous,
                  now >>

\* the provider that calculateOptimalRoute waits for (elevation at line 87,
\* the charging directory at line 67 of realChargingStationService.ts) stays
\* silent: neither fetch has a timeout or an abort signal
ProviderSilent ==
  /\ pc \in {"elevation", "lookup"}
  /\ callNo = 1
  /\ ~ silent
  /\ silent' = TRUE
  /\ UNCHANGED << scanVars, evaluations, directoryLog, ui, isPlanning, error, delivered,
                  routeCalls, origin, destination, taskVars, originPoint, destinationPoint, geocodeResults,
                  elevationProfile, elevationSource, weather, callNo, previous, now >>

\* the steps of the program in a planning request
RequestStep ==
  \/ PlanRoute
  \/ PlanRouteAgain
  \/ GeocodeNotFound
  \/ GeocodeRejects
  \/ GeocodeFound
  \/ ElevationAnswer
  \/ ElevationFails
  \/ WeatherAnswer
  \/ WeatherFails
  \/ StartScan
  \/ DriveSegment
  \/ RequestStations
  \/ LiveAnswer
  \/ FallbackAnswer
  \/ InsertStop
  \/ SkipStop
  \/ ReturnPlan
  \/ DeliverPlan

RouteNext ==
  \/ RequestStep
  \/ ProviderSilent

RouteSpec == RouteInit /\ [][RouteNext]_vars

(***************************************************************************)
(* Properties                                                              *)
(***************************************************************************)
Eligible(station) ==
  station.isAvailable /\ \E t \in station.connectorTypes : t \in vehicle.chargingPorts

EveryLookupAnswered ==
  \A k \in 1..Len(scanLog) : scanLog[k].looked => scanLog[k].eligible

\* C1: if every lookup of the scan returned an eligible station, currentSOC is
\* not below 0 after any segment.
C1_NoNegativeSOCWhenStationsExist ==
  EveryLookupAnswered => \A k \in 1..Len(scanLog) : scanLog[k].socAfter >= 0

\* C2: every recorded stop has departureSOC >= arrivalSOC, chargingTime >= 0
\* and energyAdded >= 0.
C2_StopFieldsNonNegative ==
  \A k \in 1..Len(chargingStops) :
    /\ chargingStops[k].departureSOC >= chargingStops[k].arrivalSOC
    /\ chargingStops[k].chargingTime >= 0
    /\ chargingStops[k].energyAdded >= 0

PlanBalance ==
  LET used == SumSeq([k \in 1..Len(plan.segments) |-> plan.segments[k].energyRequired])
      added == SumSeq([k \in 1..Len(plan.chargingStops) |-> plan.chargingStops[k].energyAdded])
  IN  plan.initialSOC * vehicle.batteryCapacity - 100 * used + 100 * added

Clamp(x, lo, hi) == IF x < lo THEN lo ELSE IF x > hi THEN hi ELSE x

StopsBefore(k) == IF k = 1 THEN 0 ELSE scanLog[k - 1].stops

\* C5: the directory is queried for a segment exactly when
\* currentSOC - socNeeded < 20; without a query no stop is inserted.
C5_LookupIffBufferBreached ==
  /\ \A k \in 1..Len(scanLog) :
       /\ scanLog[k].looked <=>
            (scanLog[k].socBefore - scanLog[k].socNeeded < 20 * vehicle.batteryCapacity)
       /\ ~ scanLog[k].looked => scanLog[k].stops = StopsBefore(k)
  /\ pc \in {"lookup", "charge"} =>
       currentSOC - 100 * segments[segIndex].energyRequired < 20 * vehicle.batteryCapacity

\* a scan that drove one segment ending exactly on the 20% buffer without a
\* query and queried the directory for another
C5_Witness ==
  /\ \E k \in 1..Len(scanLog) :
       /\ ~ scanLog[k].looked
       /\ scanLog[k].socAfter = 20 * vehicle.batteryCapacity
  /\ \E k \in 1..Len(scanLog) : scanLog[k].looked

\* C6: when the buffer check requires a stop and the answer has no eligible
\* station, no stop is inserted for the segment, currentSOC is only reduced
\* by socNeeded, and the scan goes on to return a plan.
C6_NoStationNoStop ==
  /\ \A k \in 1..Len(scanLog) :
       (scanLog[k].looked /\ ~ scanLog[k].eligible) =>
          /\ scanLog[k].stops = StopsBefore(k)
          /\ scanLog[k].socAfter = scanLog[k].socBefore - scanLog[k].socNeeded
  /\ pc = "done" => (plan # NoPlan /\ Len(scanLog) = Len(segments))

\* a returned plan of a scan in which a lookup found no eligible station and
\* the SOC went negative
C6_Witness ==
  /\ pc = "done"
  /\ plan # NoPlan
  /\ \E k \in 1..Len(scanLog) :
       scanLog[k].looked /\ ~ scanLog[k].eligible /\ scanLog[k].socAfter < 0

\* C7: the station of every recorded stop is available and shares a connector
\* type with the vehicle; findBestChargingStation returns null exactly when
\* the list has no eligible station.
C7_StopsAtEligibleStations ==
  /\ \A k \in 1..Len(chargingStops) : Eligible(chargingStops[k].station)
  /\ pc = "charge" =>
       ((bestStation = NoStation) <=>
          ~ \E n \in 1..Len(nearbyStations) : Eligible(nearbyStations[n]))

\* a selection from a list that holds an ineligible station ahead of the
\* selected one
C7_Witness ==
  /\ pc = "charge"
  /\ bestStation # NoStation
  /\ ~ Eligible(nearbyStations[1])

NetworkBonus(station) ==
  CASE station.network = "Tesla" -> 20
    [] station.network = "DEWA" -> 15
    [] station.network = "ADDC" -> 10
    [] OTHER -> 0

\* ten times  maxPower/10 + networkBonus + numberOfPorts + amenities count
Score10(station) ==
  station.maxPower + 10 * (NetworkBonus(station) + station.numberOfPorts + station.amenities)

\* C8: the selected station is eligible, no eligible station of the list has
\* a higher score, and it is the first of the list with that score.
C8_BestIsFirstMaximal ==
  (pc = "charge" /\ bestStation # NoStation) =>
    \E n \in 1..Len(nearbyStations) :
      /\ nearbyStations[n] = bestStation
      /\ Eligible(nearbyStations[n])
      /\ \A m \in 1..Len(nearbyStations) :
           Eligible(nearbyStations[m]) => Score10(nearbyStations[m]) <= Score10(bestStation)
      /\ \A m \in 1..(n - 1) :
           Eligible(nearbyStations[m]) => Score10(nearbyStations[m]) < Score10(bestStation)

\* a selection from a list in which two different eligible stations share the
\* maximal score
C8_Witness ==
  /\ pc = "charge"
  /\ bestStation # NoStation
  /\ \E n \in 1..Len(nearbyStations) :
       /\ Eligible(nearbyStations[n])
       /\ nearbyStations[n].id # bestStation.id
       /\ Score10(nearbyStations[n]) = Score10(bestStation)

\* C9: chargingTime is energyAdded / min(station.maxPower, maxChargingSpeed) * 60
\* up to the two roundings: half a minute for chargingTime and 0.05 kWh, that
\* is 3 / power minutes, for energyAdded.
C9_ChargingTimeMatchesEnergy ==
  \A k \in 1..Len(chargingStops) :
    LET stop == chargingStops[k]
        power == IF stop.station.maxPower < vehicle.maxChargingSpeed
                 THEN stop.station.maxPower ELSE vehicle.maxChargingSpeed
        diff == stop.chargingTime * power - 6 * stop.energyAdded
    IN  2 * (IF diff < 0 THEN 0 - diff ELSE diff) <= power + 6

\* a stop that adds energy at a station stronger than the vehicle's limit
C9_Witness ==
  \E k \in 1..Len(chargingStops) :
    /\ chargingStops[k].station.maxPower > vehicle.maxChargingSpeed
    /\ chargingStops[k].energyAdded > 0
    /\ chargingStops[k].chargingTime > 0

\* C10: Scenario B.  A single segment of a 450 km leg (at least the base
\* consumption of 450 km at 150 Wh/km), 75 kWh battery, initial SOC 80%, an
\* eligible station in the answer: the plan has a stop with departureSOC = 80
\* whose arrivalSOC is below the initial SOC.
C10_ScenarioB ==
  ( /\ pc = "done"
    /\ vehicle.batteryCapacity = 750
    /\ initialSOC = 80
    /\ Len(segments) = 1
    /\ segments[1].energyRequired >= baseConsumption(450, 150)
    /\ EveryLookupAnswered )
  => \E k \in 1..Len(plan.chargingStops) :
       /\ plan.chargingStops[k].departureSOC = 80
       /\ plan.chargingStops[k].arrivalSOC < plan.initialSOC

(***************************************************************************)
(* getNearbyStations when the live request fails                           *)
(***************************************************************************)
\* the place of a station in the built-in list, 0 when it is not in it
BuiltInPosition(station) ==
  IF \E i \in 1..Len(fallbackStations) : fallbackStations[i] = station
  THEN CHOOSE i \in 1..Len(fallbackStations) : fallbackStations[i] = station
  ELSE 0

\* C15: a lookup always resolves with a list, and when the live request has
\* failed the list is made of built-in stations only, each within the
\* requested radius of the requested point, in the order of the built-in
\* list, with no built-in station of that radius left out.
C15_FallbackAnswerWithinRadius ==
  /\ pc = "charge" => answerSource \in {"live", "fallback"}
  /\ answerSource = "fallback" =>
       /\ \A k \in 1..Len(nearbyStations) :
            /\ BuiltInPosition(nearbyStations[k]) > 0
            /\ calculateDistance(currentPosition, nearbyStations[k].id)
                 <= LookupRadiusKm * 1000
       /\ \A j, k \in 1..Len(nearbyStations) :
            j < k => BuiltInPosition(nearbyStations[j]) < BuiltInPosition(nearbyStations[k])
       /\ \A i \in 1..Len(fallbackStations) :
            calculateDistance(currentPosition, fallbackStations[i].id)
                <= LookupRadiusKm * 1000
              => \E k \in 1..Len(nearbyStations) : nearbyStations[k] = fallbackStations[i]

\* a fallback answer that holds some of the built-in stations and not all
C15_Witness ==
  /\ answerSource = "fallback"
  /\ Len(nearbyStations) > 1
  /\ Len(nearbyStations) < Len(fallbackStations)

\* C16: when the live request has failed, the list getNearbyStations returns
\* is not empty, whatever the requested point.
C16_FallbackAnswerNonEmpty ==
  answerSource = "fallback" => Len(nearbyStations) > 0

(***************************************************************************)
(* Properties of the energy model                                          *)
(***************************************************************************)
\* two calls for the same trip and wind, the first at -5 C, the second at 25 C
ColdWarmPair(cold, warm) ==
  /\ cold.distance = warm.distance
  /\ cold.elevationGain = warm.elevationGain
  /\ cold.weather.windSpeed = warm.weather.windSpeed
  /\ cold.weather.temperature = -5
  /\ warm.weather.temperature = 25

\* the wind term min(0.20, windSpeed / 100), in hundredths
WindTerm(w) == IF w.windSpeed < 20 THEN w.windSpeed ELSE 20

\* energyRequired values (tenths of a kWh, each rounded to one) in the ratio
\* (1.30 + wind term) / (1.00 + wind term)
InMultiplierRatio(cold, warm) ==
  LET diff == cold.energyRequired * (100 + WindTerm(warm.weather))
              - warm.energyRequired * (130 + WindTerm(cold.weather))
  IN  2 * (IF diff < 0 THEN 0 - diff ELSE diff) <= 230 + 2 * WindTerm(warm.weather)

\* C12 as stated: for any trip, vehicle, elevation gain and wind the
\* energyRequired at -5 C is strictly higher than at 25 C, by the ratio of
\* the weather multipliers.
C12_ColdStrictlyHigherForAnyTrip ==
  \A i, j \in 1..Len(evaluations) :
    ColdWarmPair(evaluations[i], evaluations[j])
      => /\ evaluations[i].energyRequired > evaluations[j].energyRequired
         /\ InMultiplierRatio(evaluations[i], evaluations[j])

\* C12 amended: for any trip, vehicle, elevation gain and wind the
\* energyRequired at -5 C is never lower than at 25 C, it is strictly higher
\* whenever the energyRequired at 25 C is at least 0.5 kWh, and the two are in
\* the ratio (1.30 + wind term) / (1.00 + wind term) up to the rounding of
\* each to 0.1 kWh.
C12_ColdHigherByMultiplier ==
  \A i, j \in 1..Len(evaluations) :
    ColdWarmPair(evaluations[i], evaluations[j])
      => /\ evaluations[i].energyRequired >= evaluations[j].energyRequired
         /\ evaluations[j].energyRequired >= 5
              => evaluations[i].energyRequired > evaluations[j].energyRequired
         /\ InMultiplierRatio(evaluations[i], evaluations[j])

\* a cold and a warm run of the same trip in wind, the cold one higher
C12_Witness ==
  \E i, j \in 1..Len(evaluations) :
    /\ ColdWarmPair(evaluations[i], evaluations[j])
    /\ evaluations[j].weather.windSpeed > 0
    /\ evaluations[j].energyRequired >= 5
    /\ evaluations[i].energyRequired > evaluations[j].energyRequired

\* C13: for a fixed vehicle and fixed weather, calculateEnergyConsumption is
\* non-decreasing in distance and in elevation gain, and never negative.
C13_EnergyMonotoneNonNegative ==
  /\ \A i \in 1..Len(evaluations) : evaluations[i].consumption >= 0
  /\ \A i, j \in 1..Len(evaluations) :
       ( /\ evaluations[i].weather = evaluations[j].weather
         /\ evaluations[i].distance <= evaluations[j].distance
         /\ evaluations[i].elevationGain <= evaluations[j].elevationGain )
       => evaluations[i].consumption <= evaluations[j].consumption

\* two calls for the same trip of some length in the same weather that differ
\* in the climb only, the one with more climb consuming more
C13_Witness ==
  \E i, j \in 1..Len(evaluations) :
    /\ evaluations[i].weather = evaluations[j].weather
    /\ evaluations[i].distance = evaluations[j].distance
    /\ evaluations[i].distance > 0
    /\ evaluations[i].elevationGain < evaluations[j].elevationGain
    /\ evaluations[i].consumption < evaluations[j].consumption

(***************************************************************************)
(* Properties of a planning request                                        *)
(***************************************************************************)
\* the request of Scenario A has returned: Dubai to Abu Dhabi, 75 kWh,
\* 150 Wh/km, 1800 kg, initial SOC 75%, 25 C / 10 km/h / clear, no climb
ScenarioAReturned ==
  /\ pc = "done"
  /\ originPoint = "Dubai"
  /\ destinationPoint = "AbuDhabi"
  /\ vehicle.batteryCapacity = 750
  /\ vehicle.efficiency = 150
  /\ vehicle.mass = 1800
  /\ initialSOC = 75
  /\ weather = [temperature |-> 25, windSpeed |-> 10, condition |-> "clear"]
  /\ \A k \in 1..Len(elevationProfile) : elevationProfile[k] = elevationProfile[1]

\* C11: Scenario A.  The plan has one segment whose energyRequired is 21 kWh
\* to the nearest kWh, no charging stop, and finalSOC = 47.
C11_ScenarioA ==
  ScenarioAReturned
    => /\ Len(plan.segments) = 1
       /\ plan.segments[1].energyRequired \in 205..214
       /\ plan.chargingStops = <<>>
       /\ plan.finalSOC = 47

\* the plan of Scenario A has been handed to onPlanRoute
C11_Witness ==
  /\ ScenarioAReturned
  /\ Len(delivered) = 1
  /\ delivered[1].segments[1].distance = 122889

\* C14: determinism.  Two calls of calculateOptimalRoute with the same
\* origin, destination, vehicle, initial SOC and weather, and the same
\* elevation and directory responses, return plans that are equal in every
\* field.
C14_SameInputsSamePlan ==
  Len(delivered) = 2 => delivered[2] = delivered[1]

\* the two plans agree in every field but id
PlansDifferInIdOnly ==
  Len(delivered) = 2 =>
    \A f \in DOMAIN delivered[1] \ {"id"} : delivered[2][f] = delivered[1][f]

\* C17: when the elevation provider has failed, the profile has two points of
\* equal elevation, the segment's elevationGain is 0, and the call goes on:
\* it has asked for the weather, and it has not aborted unless the weather
\* lookup did.
C17_ElevationFailureGivesFlatProfile ==
  elevationSource = "fallback" =>
    /\ Len(elevationProfile) = 2
    /\ elevationProfile[1] = elevationProfile[2]
    /\ pc # "elevation"
    /\ pc = "failed" => weather = NoWeather
    /\ segments # <<>> => segments[1].elevationGain = 0
    /\ pc = "done" => /\ Len(plan.segments) = 1
                      /\ plan.segments[1].elevationGain = 0

\* a plan returned and delivered after the elevation provider failed, for a
\* trip of some length
C17_Witness ==
  /\ elevationSource = "fallback"
  /\ pc = "done"
  /\ Len(delivered) = 1
  /\ delivered[1].segments[1].elevationGain = 0
  /\ delivered[1].segments[1].distance > 0

\* C18: when the weather lookup has failed, calculateOptimalRoute has not
\* aborted: past the lookup, the call holds a weather sample and goes on to
\* a plan.
C18_WeatherFailureUsesDefault ==
  (elevationSource # "none" /\ pc # "weather")
    => /\ weather # NoWeather
       /\ pc # "failed"

\* C19: when geocoding the origin or the destination has given no result,
\* calculateOptimalRoute has not been invoked, onPlanRoute has not been
\* called, and the error is 'Origin location not found' (the origin is
\* checked first) or 'Destination location not found'.
C19_GeocodeNotFoundIsFatal ==
  (geocodeResults # NoResults /\ (geocodeResults[1] = <<>> \/ geocodeResults[2] = <<>>))
    => /\ routeCalls = 0
       /\ pc = "none"
       /\ delivered = <<>>
       /\ plan = NoPlan
       /\ error = (IF geocodeResults[1] = <<>> THEN "Origin location not found"
                   ELSE "Destination location not found")
       /\ ~ isPlanning
       /\ ui = "idle"

\* the destination alone was not found, and neither place was found
C19_Witness ==
  /\ geocodeResults # NoResults
  /\ geocodeResults[1] = <<>>
  /\ geocodeResults[2] = <<>>
  /\ error = "Origin location not found"

\* the steps that end the wait for the elevation provider or the directory
AwaitEnds ==
  \/ ElevationAnswer
  \/ ElevationFails
  \/ LiveAnswer
  \/ FallbackAnswer

\* C20: a call that waits for a provider never blocks: in every state in
\* which calculateOptimalRoute waits for the elevation provider or for the
\* charging directory, a step that ends the wait (the answer, or the fallback
\* taken on an error or a timeout) is possible, also when the provider stays
\* silent.
C20_NoAwaitBlocksForever ==
  pc \in {"elevation", "lookup"} => ENABLED AwaitEnds

(***************************************************************************)
(* Properties of the scan, continued                                       *)
(***************************************************************************)
\* where the scan stands before segment k: the start of the first segment,
\* the end of the segment before
PositionBefore(k) == IF k = 1 THEN segments[1].start ELSE segments[k - 1].end

\* C22: lookups are issued in segment order, one at a time, with radius
\* 50 km and with origin the current position: the start of the first
\* segment, the end of segment i-1 for segment i.  A lookup is in flight only
\* for the segment under examination, after every earlier segment is
\* finished, and no later segment is examined before it is answered.
C22_LookupsInSegmentOrder ==
  /\ pc \in {"lookup", "charge"} =>
       /\ segIndex \in 1..Len(segments)
       /\ Len(scanLog) = segIndex - 1
       /\ currentPosition = PositionBefore(segIndex)
  /\ pc = "lookup" =>
       /\ request.at = PositionBefore(segIndex)
       /\ request.radiusKm = 50
  /\ pc # "lookup" => request = NoRequest
  /\ \A k \in 1..Len(scanLog) : scanLog[k].origin = PositionBefore(k)

\* a lookup in flight for a segment after the first
C22_Witness ==
  /\ pc = "lookup"
  /\ segIndex > 1
  /\ request.at = segments[segIndex - 1].end
  /\ scanLog[segIndex - 1].looked

\* C23: a stop taken before a segment records arrivalSOC = round(currentSOC),
\* departureSOC = 80, energyAdded = batteryCapacity * (80 - currentSOC) / 100
\* rounded to 0.1 kWh, and the SOC after that segment is 80 - socNeeded; after
\* a segment without a stop it is the SOC before - socNeeded.
C23_StopFieldsAndSOCAfter ==
  \A k \in 1..Len(scanLog) :
    LET entry == scanLog[k]
        cap == vehicle.batteryCapacity
    IN  /\ entry.socNeeded = 100 * segments[k].energyRequired
        /\ entry.found =>
             /\ entry.stops = StopsBefore(k) + 1
             /\ entry.stops <= Len(chargingStops)
             /\ LET stop == chargingStops[entry.stops]
                IN  /\ 2 * cap * stop.arrivalSOC - cap <= 2 * entry.socBefore
                    /\ 2 * entry.socBefore < 2 * cap * stop.arrivalSOC + cap
                    /\ stop.departureSOC = 80
                    /\ 100 * stop.energyAdded - 50 <= 80 * cap - entry.socBefore
                    /\ 80 * cap - entry.socBefore < 100 * stop.energyAdded + 50
             /\ entry.socAfter = 80 * cap - entry.socNeeded
        /\ ~ entry.found =>
             /\ entry.stops = StopsBefore(k)
             /\ entry.socAfter = entry.socBefore - entry.socNeeded

\* a stop taken before a later segment at a SOC that is no whole percent
C23_Witness ==
  \E k \in 2..Len(scanLog) :
    /\ scanLog[k].found
    /\ scanLog[k].socBefore % vehicle.batteryCapacity # 0
    /\ scanLog[k].socBefore > 0

\* the totals of the returned plan are the sums over its segments and stops:
\* distance to the whole kilometre, duration in whole minutes, energy in
\* tenths of a kWh
PlanTotalsAreSums ==
  pc = "done" =>
    LET dist == SumSeq([k \in 1..Len(plan.segments) |-> plan.segments[k].distance])
        driving == SumSeq([k \in 1..Len(plan.segments) |-> plan.segments[k].duration])
        charging == SumSeq([k \in 1..Len(plan.chargingStops) |->
                              plan.chargingStops[k].chargingTime])
        used == SumSeq([k \in 1..Len(plan.segments) |-> plan.segments[k].energyRequired])
    IN  /\ 1000 * plan.totalDistance - 500 <= dist
        /\ dist < 1000 * plan.totalDistance + 500
        /\ plan.totalDuration = driving + charging
        /\ plan.totalEnergyUsed = used

\* the plan's totalDuration is at least the summed driving time
DurationCoversDriving ==
  pc = "done" =>
    plan.totalDuration >=
      SumSeq([k \in 1..Len(plan.segments) |-> plan.segments[k].duration])

\* C24: in the returned plan totalDistance, totalDuration and totalEnergyUsed
\* are the sums over the segments (plus the charging times for the duration),
\* rounded to whole units (energy to 0.1 kWh), and totalDuration is never
\* smaller than the summed driving time.
C24_PlanTotals == PlanTotalsAreSums /\ DurationCoversDriving

\* the scan's own currentSOC after the last segment, floored at 0 and rounded
\* to a whole percent
RunningFinalSOC == MathRound(Max(0, currentSOC), vehicle.batteryCapacity)

C28_AtMostOneStopAtOrigin ==
  /\ Len(chargingStops) <= Len(segments)
  /\ Len(chargingStops) <= Len(scanLog) + (IF pc \in {"scan", "lookup", "charge"} THEN 1 ELSE 0)
  /\ pc \in {"call", "scan", "lookup", "charge", "done"} =>
       /\ Len(segments) = 1
       /\ segments[1].start = originPoint
       /\ segments[1].end = destinationPoint
  /\ pc = "charge" =>
       /\ scanLog = <<>>
       /\ currentPosition = originPoint
       /\ currentSOC = Pct(initialSOC)
  /\ pc = "done" =>
       /\ Len(plan.segments) = 1
       /\ Len(plan.chargingStops) <= 1
       /\ \A k \in 1..Len(plan.chargingStops) :
            /\ plan.chargingStops[k].arrivalSOC = initialSOC
            /\ scanLog[1].found
            /\ scanLog[1].origin = originPoint
            /\ scanLog[1].socBefore = Pct(initialSOC)

\* a plan for the longest trip (Dubai to Riyadh, 868 km) with its one stop
C28_Witness ==
  /\ pc = "done"
  /\ plan.segments[1].distance > 800000
  /\ Len(plan.chargingStops) = 1
  /\ plan.chargingStops[1].arrivalSOC = initialSOC
  /\ currentSOC < 0

\* the fields of a RoutePlan
PlanFields == {"id", "initialSOC", "segments", "chargingStops", "totalDistance",
               "totalDuration", "totalChargingTime", "totalEnergyUsed", "finalSOC"}

\* a step that calls onPlanRoute: calculateOptimalRoute has returned, the
\* plan handed over is the one it returned, complete, and the request ends
DeliveryStep ==
  /\ isPlanning /\ ~ isPlanning'
  /\ ui = "route" /\ ui' = "idle"
  /\ pc = "done"
  /\ error = "null" /\ error' = "null"
  /\ DOMAIN plan = PlanFields
  /\ Len(plan.segments) = 1
  /\ delivered' = Append(delivered, plan)

\* C30: isPlanning is true from the start of a planning request until it
\* settles and false after every outcome; while it is true no request is
\* started; onPlanRoute is called at most once per request, only with the
\* complete plan calculateOptimalRoute returned, never on failure.
C30_PlanningLifecycle ==
  /\ [](isPlanning <=> ui \in {"geocode", "route"})
  /\ [](Len(delivered) <= callNo)
  /\ []((ui = "idle" /\ error # "null") => Len(delivered) < callNo)
  /\ [][callNo' # callNo => (~ isPlanning /\ isPlanning' /\ callNo' = callNo + 1)]_vars
  /\ [][delivered' # delivered => DeliveryStep]_vars
  /\ [][(isPlanning /\ ~ isPlanning') =>
          (delivered' # delivered \/ error' # "null")]_vars

\* the second request has delivered its plan and the button is enabled again
C30_Witness ==
  /\ callNo = 2
  /\ Len(delivered) = 2
  /\ ~ isPlanning
  /\ ui = "idle"

(***************************************************************************)
(* Properties of calculateWeatherImpact                                    *)
(***************************************************************************)
\* C25: weatherImpact is -30 below 0 degrees C, else -15 below 10, else -10
\* above 35, else 0, minus a further 5 when windSpeed is above 30 km/h; for
\* every temperature and wind speed it lies in [-40, 10].
C25_WeatherImpactBands ==
  \A k \in 1..Len(evaluations) :
    LET t == evaluations[k].weather.temperature
        wind == evaluations[k].weather.windSpeed
        impact == evaluations[k].weatherImpact
        penalty == IF wind > 30 THEN 5 ELSE 0
    IN  /\ t < 0 => impact = -30 - penalty
        /\ (t >= 0 /\ t < 10) => impact = -15 - penalty
        /\ (t >= 10 /\ t <= 35) => impact = 0 - penalty
        /\ t > 35 => impact = -10 - penalty
        /\ impact \in -40..10

\* the impact of frost with a wind above 30 km/h has been computed
C25_Witness ==
  /\ Len(evaluations) = 1
  /\ evaluations[1].weather.temperature < 0
  /\ evaluations[1].weather.windSpeed > 30
  /\ evaluations[1].weatherImpact = -35

(***************************************************************************)
(* Properties of calculateElevationGain                                    *)
(***************************************************************************)
\* the climb from sample k to sample k + 1 of a profile, 0 for a descent
Climb(profile, k) == Max(0, profile[k + 1] - profile[k])

\* C26: calculateElevationGain returns the sum of the positive differences
\* between consecutive elevation samples, rounded to a whole metre; descents
\* are never subtracted, so the result is >= 0 for every profile and 0 for
\* every flat or non-increasing profile.
C26_GainIsSumOfClimbs ==
  \A e \in 1..Len(evaluations) :
    LET profile == evaluations[e].profile
        gain == evaluations[e].elevationGain
        climbs == SumSeq([k \in 1..(Len(profile) - 1) |-> Climb(profile, k)])
    IN  /\ 10 * gain - 5 <= climbs
        /\ climbs < 10 * gain + 5
        /\ gain >= 0
        /\ (\A k \in 1..(Len(profile) - 1) : profile[k + 1] <= profile[k]) => gain = 0

\* the gain of a profile that descends by more than it climbs
C26_Witness ==
  /\ Len(evaluations) = 1
  /\ Len(evaluations[1].profile) >= 3
  /\ evaluations[1].profile[Len(evaluations[1].profile)] < evaluations[1].profile[1]
  /\ evaluations[1].elevationGain > 0

(***************************************************************************)
(* Properties of the elevation request                                     *)
(***************************************************************************)
\* the points of the elevation request in flight run from the origin to the
\* destination in order, evenly spaced
EvenlySpacedInOrder ==
  pc = "elevation" =>
    LET locations == request.locations
        n == Len(locations)
    IN  /\ n >= 2
        /\ locations[1].ratio[1] = 0
        /\ locations[n].ratio[1] = locations[n].ratio[2]
        /\ \A k \in 1..n :
             /\ locations[k].from = originPoint
             /\ locations[k].to = destinationPoint
             /\ locations[k].ratio[2] = n - 1
             /\ locations[k].ratio[1] = k - 1

\* C27: the elevation request built by getElevationProfile holds exactly
\* N = 10 evenly interpolated points of the straight line from the origin to
\* the destination, in order from the origin to the destination.
C27_TenInterpolatedPoints ==
  /\ EvenlySpacedInOrder
  /\ pc = "elevation" => Len(request.locations) = 10

(***************************************************************************)
(* Properties of two calls at once                                         *)
(***************************************************************************)
\* The activation `call` is what its own arguments and the answers the
\* directory gave to it make of it in a run alone: the SOC before each
\* segment is the call's initial SOC or its own SOC after the segment before,
\* every stop is the session of that SOC, the accumulators stand where the
\* call's own history left them, and the plan is assembled from them.
RunsAsAlone(call) ==
  LET cap == call.vehicle.batteryCapacity
      log == call.scanLog
      n == Len(log)
      socAt(k) == IF k = 1 THEN call.initialSOC * cap ELSE log[k - 1].socAfter
      stopsAt(k) == IF k = 1 THEN 0 ELSE log[k - 1].stops
      positionAt(k) == IF k = 1 THEN call.segments[1].start ELSE call.segments[k - 1].end
  IN  /\ n <= Len(call.segments)
      /\ \A k \in 1..n :
           /\ log[k].socBefore = socAt(k)
           /\ log[k].origin = positionAt(k)
           /\ log[k].socNeeded = 100 * call.segments[k].energyRequired
           /\ log[k].looked <=> socAt(k) - log[k].socNeeded < BufferSOC * cap
           /\ log[k].found => log[k].looked
           /\ log[k].stops = stopsAt(k) + (IF log[k].found THEN 1 ELSE 0)
           /\ log[k].socAfter =
                (IF log[k].found THEN targetSOC * cap ELSE socAt(k)) - log[k].socNeeded
           /\ log[k].found =>
                /\ log[k].stops <= Len(call.chargingStops)
                /\ LET stop == call.chargingStops[log[k].stops]
                   IN  /\ IsCompatible(stop.station, call.vehicle)
                       /\ stop.arrivalSOC = MathRound(socAt(k), cap)
                       /\ stop.departureSOC = targetSOC
                       /\ stop.energyAdded = MathRound(targetSOC * cap - socAt(k), 100)
                       /\ stop.chargingTime =
                            MathRound((targetSOC * cap - socAt(k)) * 60,
                                      1000 * Min(stop.station.maxPower,
                                                 call.vehicle.maxChargingSpeed))
      /\ call.pc \in {"scan", "lookup", "charge"} =>
           /\ call.segIndex = n + 1
           /\ call.currentSOC = socAt(n + 1)
           /\ call.currentPosition = positionAt(n + 1)
           /\ Len(call.chargingStops) = stopsAt(n + 1)
      /\ call.pc = "done" =>
           /\ n = Len(call.segments)
           /\ Len(call.chargingStops) = stopsAt(n + 1)
           /\ call.plan.initialSOC = call.initialSOC
           /\ call.plan.segments = call.segments
           /\ call.plan.chargingStops = call.chargingStops
           /\ call.plan.totalEnergyUsed = totalEnergyUsed(call.segments)
           /\ call.plan.totalDuration = totalDuration(call.segments, call.chargingStops)
           /\ call.plan.finalSOC =
                FinalSOC(call.initialSOC, call.segments, call.chargingStops, call.vehicle)

\* C21: two calculateOptimalRoute calls on the singleton services,
\* interleaved at their await points, each return the plan they would return
\* alone: the currentSOC / currentPosition accumulator and the stop list of
\* one call are never read or written by the other.
C21_InterleavedCallsRunAsAlone ==
  running # 0 => /\ RunsAsAlone(Activation)
                 /\ RunsAsAlone(suspended)

\* both calls are in the middle of their scans, each waiting for the
\* directory before its second segment, with different accumulators
C21_Witness ==
  /\ running = 2
  /\ pc = "lookup"
  /\ suspended.pc = "lookup"
  /\ Len(scanLog) = 1
  /\ Len(suspended.scanLog) = 1
  /\ vehicle # suspended.vehicle
  /\ currentSOC # suspended.currentSOC
  /\ Len(chargingStops) # Len(suspended.chargingStops)

====
